---- MODULE Spec2Model ----
(***************************************************************************)
(* Model of yaml_source_map/handle.py: the recursive walk value ->         *)
(* sequence | primitive over a yaml.Loader token cursor, which builds the  *)
(* list of (JSON pointer, Entry) pairs of a document.                      *)
(*                                                                         *)
(* The recursion is modelled with an explicit stack of sequence() frames;  *)
(* pc is the line of handle.py the innermost call is at.  The loader is    *)
(* the list of tokens scanned so far and the number already taken.         *)
(***************************************************************************)
EXTENDS Integers, Sequences, FiniteSets, TLC

\* Longest token stream the loader is given.
MaxLen == 6

VARIABLES
    tokens,     \* the tokens the loader's scanner has produced so far
    exhausted,  \* the scanner has reached the end of the stream
    pos,        \* number of tokens taken from the loader so far
    entry,      \* the function of handle.py the caller invoked
    pc,         \* control point of the innermost active call
    stack,      \* active sequence() calls, innermost last
    ret,        \* value returned by the call that has just returned
    err,        \* the InvalidYamlError raised, if any
    result,     \* what the outermost call gave its caller
    io,         \* loader calls made so far: peek_token, get_token, last token got
    calls,      \* history: every call of value/sequence/primitive, with its cursor
    log         \* history: every call that returned, with its cursor span and result

vars == <<tokens, exhausted, pos, entry, pc, stack, ret, err, result, io, calls, log>>

-----------------------------------------------------------------------------
\* Tokens (yaml.tokens) and the loader

FlowSequenceStartToken == "FlowSequenceStart"
BlockSequenceStartToken == "BlockSequenceStart"
FlowSequenceEndToken == "FlowSequenceEnd"
BlockEndToken == "BlockEnd"
BlockEntryToken == "BlockEntry"
FlowEntryToken == "FlowEntry"
ScalarToken == "Scalar"
\* any other token class of the tokenizer (KeyToken, StreamEndToken, ...)
OtherToken == "Other"

TokenKinds ==
    { FlowSequenceStartToken, BlockSequenceStartToken, FlowSequenceEndToken,
      BlockEndToken, BlockEntryToken, FlowEntryToken, ScalarToken, OtherToken }

\* A yaml Mark: the source is a single line, so column = index.
Mark(i) == [line |-> 0, column |-> i, index |-> i]

\* What peek_token / get_token return once the stream is exhausted.
None == [kind |-> "None", start_mark |-> Mark(0), end_mark |-> Mark(0)]

\* Characters a token of each kind spans: the block-sequence start and the
\* block end are zero-width markers, a scalar is two characters, the other
\* indicators one.
Width(kind) ==
    CASE kind \in {BlockSequenceStartToken, BlockEndToken} -> 0
      [] kind = ScalarToken -> 2
      [] OTHER -> 1

\* White space after a token: one blank after an entry indicator.
Gap(kind) == IF kind \in {BlockEntryToken, FlowEntryToken} THEN 1 ELSE 0

\* The token the scanner produces next: it starts where the last token
\* scanned and the white space after it end.
ScanToken(kind) ==
    LET start == IF tokens = <<>> THEN 0
                 ELSE tokens[Len(tokens)].end_mark.index + Gap(tokens[Len(tokens)].kind)
    IN  [kind |-> kind, start_mark |-> Mark(start), end_mark |-> Mark(start + Width(kind))]

\* The loader scans on demand (peek_token and get_token both fetch until a
\* token is queued or the stream has ended): the scanner states in which the
\* next token, if there is one, is available.
Fetch ==
    IF pos < Len(tokens) \/ exhausted
    THEN {[tokens |-> tokens, exhausted |-> exhausted]}
    ELSE {[tokens |-> tokens, exhausted |-> TRUE]} \cup
         (IF Len(tokens) >= MaxLen THEN {}
          ELSE {[tokens |-> Append(tokens, ScanToken(kind)), exhausted |-> FALSE] :
                    kind \in TokenKinds})

\* The token at the cursor; None when the stream is exhausted.
NextToken(f) == IF pos < Len(f.tokens) THEN f.tokens[pos + 1] ELSE None

\* loader.get_token(): the cursor after taking `token`.
TakenPos(token) == IF token = None THEN pos ELSE pos + 1

\* loader.peek_token() was called.
Peeked == [io EXCEPT !.peeks = @ + 1]

\* loader.get_token() returned `token`, after n calls of peek_token.
Got(n, token) == [io EXCEPT !.peeks = @ + n, !.takes = @ + 1, !.last = token]

IsSequenceStart(token) ==
    token.kind \in {FlowSequenceStartToken, BlockSequenceStartToken}

\* Mutant: the end of the stream is taken for the end of the sequence.
IsSequenceEndOrNone(token) ==
    token.kind \in {FlowSequenceEndToken, BlockEndToken, "None"}

IsSequenceEnd(token) ==
    token.kind \in {FlowSequenceEndToken, BlockEndToken}

-----------------------------------------------------------------------------
\* types.Location, types.Entry and the JSON pointers

Location(mark) == [line |-> mark.line, column |-> mark.column, index |-> mark.index]

Entry(start, end) == [value_start |-> start, value_end |-> end]

DigitChar == <<"0", "1", "2", "3", "4", "5", "6", "7", "8", "9">>

\* str(n) of a non-negative integer, as its sequence of characters.
RECURSIVE Str(_)
Str(n) ==
    IF n < 10 THEN <<DigitChar[n + 1]>>
    ELSE Str(n \div 10) \o <<DigitChar[(n % 10) + 1]>>

\* Mutant: the index is put behind the element's pointer.
SuffixPointer(sequence_index, pointer) == pointer \o <<"/">> \o Str(sequence_index)

\* f"/{sequence_index}{pointer}": a pointer is its sequence of characters.
PrefixPointer(sequence_index, pointer) == <<"/">> \o Str(sequence_index) \o pointer

\* Mutant: only the element's own entry is merged, not its descendants'.
ExtendFirstOnly(entries, sequence_index, value_entries) ==
    entries \o
    << <<PrefixPointer(sequence_index, value_entries[1][1]), value_entries[1][2]>> >>

\* entries.extend((f"/{sequence_index}{pointer}", entry) for ... in value_entries)
Extend(entries, sequence_index, value_entries) ==
    entries \o
    [j \in 1..Len(value_entries) |->
        <<PrefixPointer(sequence_index, value_entries[j][1]), value_entries[j][2]>>]

\* Mutant: the sequence's own entry is put behind its children's.
SequenceResultAppended(value_start, value_end, entries) ==
    entries \o << <<(<<>>), Entry(value_start, value_end)>> >>

\* [("", Entry(value_start, value_end))] + entries
SequenceResult(value_start, value_end, entries) ==
    << <<(<<>>), Entry(value_start, value_end)>> >> \o entries

\* [("", Entry(Location(start_mark), Location(end_mark)))]
PrimitiveResult(token) ==
    << <<(<<>>), Entry(Location(token.start_mark), Location(token.end_mark))>> >>

NoError == [raised |-> FALSE, expected |-> "", token |-> None]

InvalidYamlError(expected, token) ==
    [raised |-> TRUE, expected |-> expected, token |-> token]

NoResult == [status |-> "none", entries |-> <<>>, error |-> NoError]

-----------------------------------------------------------------------------
\* The walk

Init ==
    /\ tokens = <<>>
    /\ exhausted = FALSE
    /\ entry \in {"value", "sequence", "primitive"}
    /\ pc = entry
    /\ pos = 0
    /\ stack = <<>>
    /\ ret = <<>>
    /\ err = NoError
    /\ result = NoResult
    /\ io = [peeks |-> 0, takes |-> 0, last |-> None]
    /\ calls = {[fn |-> entry, at |-> 0]}
    /\ log = <<>>

\* The scanner state after a loader call.
Loader(f) ==
    /\ tokens' = f.tokens
    /\ exhausted' = f.exhausted

\* A call returns value_entries to its caller: the enclosing sequence() at
\* line 63, or the caller of the outermost function.
Return(fn, at, takes, newStack, value_entries) ==
    /\ stack' = newStack
    /\ log' = Append(log, [fn |-> fn, at |-> at, end |-> pos',
                           takes |-> io'.takes - takes, entries |-> value_entries])
    /\ IF newStack = <<>>
       THEN /\ pc' = "done"
            /\ ret' = <<>>
            /\ result' = [status |-> "ok", entries |-> value_entries, error |-> NoError]
       ELSE /\ pc' = "extend"
            /\ ret' = value_entries
            /\ UNCHANGED result

\* raise errors.InvalidYamlError(...)
Raise(expected, token) ==
    /\ err' = InvalidYamlError(expected, token)
    /\ pc' = "raise"
    /\ UNCHANGED <<stack, ret, result, log>>

\* Mutant: the block form is forgotten in the test of value().
DispatchFlowOnly(token) ==
    IF token.kind = FlowSequenceStartToken THEN "sequence" ELSE "primitive"

\* The function value() delegates to, by the token it peeked.
Dispatch(token) == IF IsSequenceStart(token) THEN "sequence" ELSE "primitive"

\* value(): peek, then delegate to sequence() or primitive().
Value ==
    /\ pc = "value"
    /\ \E f \in Fetch :
        /\ Loader(f)
        /\ pc' = Dispatch(NextToken(f))
        /\ calls' = calls \cup {[fn |-> Dispatch(NextToken(f)), at |-> pos]}
    /\ io' = Peeked
    /\ UNCHANGED <<pos, entry, stack, ret, err, result, log>>

\* Mutant: the start of the sequence is read from the token's end mark.
FrameFromEndMark(token) ==
    [at |-> pos,
     takes |-> io.takes,
     value_start |-> Location(token.end_mark),
     sequence_index |-> 0,
     entries |-> <<>>,
     iter_pos |-> pos]

\* The frame of a sequence() call that has taken its start token.  at, takes
\* and iter_pos are history: the cursor and the get_token count at the call,
\* and the cursor at the last evaluation of the loop condition.
Frame(token) ==
    [at |-> pos,
     takes |-> io.takes,
     value_start |-> Location(token.start_mark),
     sequence_index |-> 0,
     entries |-> <<>>,
     iter_pos |-> pos]

\* sequence(), lines 41-54: take the start token and open the element loop.
SequenceStart ==
    /\ pc = "sequence"
    /\ \E f \in Fetch :
        LET token == NextToken(f) IN
        /\ Loader(f)
        /\ pos' = TakenPos(token)
        /\ io' = Got(0, token)
        /\ IF ~IsSequenceStart(token)
           THEN Raise("sequence or block sequence start", token)
           ELSE /\ stack' = Append(stack, Frame(token))
                /\ pc' = "while"
                /\ UNCHANGED <<ret, err, result, log>>
    /\ UNCHANGED <<entry, calls>>

\* sequence(), line 55: the loop condition.
While ==
    /\ pc = "while"
    /\ \E f \in Fetch :
        /\ Loader(f)
        /\ pc' = IF IsSequenceEnd(NextToken(f)) THEN "end" ELSE "block_entry"
    /\ io' = Peeked
    /\ stack' = [stack EXCEPT ![Len(stack)].iter_pos = pos]
    /\ UNCHANGED <<pos, entry, ret, err, result, calls, log>>

\* sequence(), lines 59-63: skip a block entry, then call value().
SkipBlockEntry ==
    /\ pc = "block_entry"
    /\ \E f \in Fetch :
        LET token == NextToken(f) IN
        /\ Loader(f)
        /\ IF token.kind = BlockEntryToken
           THEN /\ pos' = TakenPos(token)
                /\ io' = Got(1, token)
           ELSE /\ pos' = pos
                /\ io' = Peeked
    /\ pc' = "value"
    /\ calls' = calls \cup {[fn |-> "value", at |-> pos']}
    /\ UNCHANGED <<entry, stack, ret, err, result, log>>

\* sequence(), lines 64-67: merge the element's entries, count the element.
ExtendEntries ==
    /\ pc = "extend"
    /\ LET top == stack[Len(stack)] IN
        stack' = [stack EXCEPT ![Len(stack)] =
                    [top EXCEPT
                        !.entries = Extend(top.entries, top.sequence_index, ret),
                        !.sequence_index = @ + 1]]
    /\ ret' = <<>>
    /\ pc' = "flow_entry"
    /\ UNCHANGED <<tokens, exhausted, pos, entry, err, result, io, calls, log>>

\* Mutant: the token after an element is taken whatever it is.
SkipAnyToken ==
    /\ pc = "flow_entry"
    /\ \E f \in Fetch :
        LET token == NextToken(f) IN
        /\ Loader(f)
        /\ pos' = TakenPos(token)
        /\ io' = Got(1, token)
    /\ pc' = "while"
    /\ UNCHANGED <<entry, stack, ret, err, result, calls, log>>

\* sequence(), lines 70-71: skip a flow entry.
SkipFlowEntry ==
    /\ pc = "flow_entry"
    /\ \E f \in Fetch :
        LET token == NextToken(f) IN
        /\ Loader(f)
        /\ IF token.kind = FlowEntryToken
           THEN /\ pos' = TakenPos(token)
                /\ io' = Got(1, token)
           ELSE /\ pos' = pos
                /\ io' = Peeked
    /\ pc' = "while"
    /\ UNCHANGED <<entry, stack, ret, err, result, calls, log>>

\* sequence(), lines 74-83: take the end token and return.
SequenceEnd ==
    /\ pc = "end"
    /\ \E f \in Fetch :
        LET token == NextToken(f)
            top == stack[Len(stack)]
        IN
        /\ Loader(f)
        /\ pos' = TakenPos(token)
        /\ io' = Got(0, token)
        /\ IF ~IsSequenceEnd(token)
           THEN Raise("sequence or block end", token)
           ELSE /\ Return("sequence", top.at, top.takes, SubSeq(stack, 1, Len(stack) - 1),
                          SequenceResult(top.value_start,
                                         Location(token.end_mark), top.entries))
                /\ UNCHANGED err
    /\ UNCHANGED <<entry, calls>>

\* Mutant: primitive() peeks at its token instead of taking it.
PrimitivePeeks ==
    /\ pc = "primitive"
    /\ \E f \in Fetch :
        LET token == NextToken(f) IN
        /\ Loader(f)
        /\ pos' = pos
        /\ io' = Peeked
        /\ IF token.kind # ScalarToken
           THEN Raise("scalar", token)
           ELSE /\ Return("primitive", pos, io.takes, stack, PrimitiveResult(token))
                /\ UNCHANGED err
    /\ UNCHANGED <<entry, calls>>

\* primitive(), lines 97-117.
Primitive ==
    /\ pc = "primitive"
    /\ \E f \in Fetch :
        LET token == NextToken(f) IN
        /\ Loader(f)
        /\ pos' = TakenPos(token)
        /\ io' = Got(0, token)
        /\ IF token.kind # ScalarToken
           THEN Raise("scalar", token)
           ELSE /\ Return("primitive", pos, io.takes, stack, PrimitiveResult(token))
                /\ UNCHANGED err
    /\ UNCHANGED <<entry, calls>>

\* Mutant: the enclosing sequence() catches the error and returns the
\* entries it has collected.
PropagateCaught ==
    /\ pc = "raise"
    /\ IF stack = <<>>
       THEN /\ pc' = "error"
            /\ result' = [status |-> "error", entries |-> <<>>, error |-> err]
            /\ UNCHANGED stack
       ELSE /\ stack' = <<>>
            /\ pc' = "done"
            /\ result' = [status |-> "ok", entries |-> stack[Len(stack)].entries,
                          error |-> NoError]
    /\ UNCHANGED <<tokens, exhausted, pos, entry, ret, err, io, calls, log>>

\* The exception leaves one enclosing sequence() call (line 63 has no
\* handler), and at last the outermost call.
Propagate ==
    /\ pc = "raise"
    /\ IF stack = <<>>
       THEN /\ pc' = "error"
            /\ result' = [status |-> "error", entries |-> <<>>, error |-> err]
            /\ UNCHANGED stack
       ELSE /\ stack' = SubSeq(stack, 1, Len(stack) - 1)
            /\ UNCHANGED <<pc, result>>
    /\ UNCHANGED <<tokens, exhausted, pos, entry, ret, err, io, calls, log>>

Next ==
    \/ Value
    \/ SequenceStart
    \/ While
    \/ SkipBlockEntry
    \/ ExtendEntries
    \/ SkipFlowEntry
    \/ SequenceEnd
    \/ Primitive
    \/ Propagate

Spec == Init /\ [][Next]_vars

\* The walk is one synchronous call: it keeps running until it returns or raises.
LiveSpec == Spec /\ WF_vars(Next)

Terminated == pc \in {"done", "error"}

-----------------------------------------------------------------------------
\* The token grammar of a document, independent of the walk: a pushdown
\* recogniser.  A value is a scalar, a flow sequence
\*     FlowSequenceStart [value (FlowEntry value)* [FlowEntry]] FlowSequenceEnd
\* or a block sequence
\*     BlockSequenceStart (BlockEntry value)* BlockEnd.
\* Modes: "V" a value is expected (root), "A" the root value is complete,
\* "X" rejected, "F0" flow sequence before an element, "F1" flow sequence
\* after an element, "B0" block sequence before an entry, "B1" block
\* sequence after an entry indicator.

AfterValue(modes) ==
    LET n == Len(modes) IN
    CASE modes[n] = "V" -> <<"A">>
      [] modes[n] = "F0" -> [modes EXCEPT ![n] = "F1"]
      [] modes[n] = "B1" -> [modes EXCEPT ![n] = "B0"]
      [] OTHER -> <<"X">>

GrammarStep(modes, kind) ==
    LET n == Len(modes)
        m == modes[n]
        rest == SubSeq(modes, 1, n - 1)
    IN
    CASE m \in {"V", "F0", "B1"} /\ kind = ScalarToken -> AfterValue(modes)
      [] m \in {"V", "F0", "B1"} /\ kind = FlowSequenceStartToken -> Append(modes, "F0")
      [] m \in {"V", "F0", "B1"} /\ kind = BlockSequenceStartToken -> Append(modes, "B0")
      [] m \in {"F0", "F1"} /\ kind = FlowSequenceEndToken -> AfterValue(rest)
      [] m = "F1" /\ kind = FlowEntryToken -> [modes EXCEPT ![n] = "F0"]
      [] m = "B0" /\ kind = BlockEntryToken -> [modes EXCEPT ![n] = "B1"]
      [] m = "B0" /\ kind = BlockEndToken -> AfterValue(rest)
      [] OTHER -> <<"X">>

\* Runs the recogniser on s[i..]: where it stopped and in which modes.
RECURSIVE GrammarRun(_, _, _)
GrammarRun(s, i, modes) ==
    IF modes = <<"A">> \/ modes = <<"X">> \/ i > Len(s)
    THEN [modes |-> modes, next |-> i]
    ELSE GrammarRun(s, i + 1, GrammarStep(modes, s[i].kind))

\* The index of the last token of the well-formed value that starts at
\* s[p]; 0 when s[p..] does not start with a complete well-formed value.
ValueEnd(s, p) ==
    LET r == GrammarRun(s, p, <<"V">>) IN
    IF r.modes = <<"A">> THEN r.next - 1 ELSE 0

\* s is exactly the token stream of one well-formed document.
WellFormed(s) == s # <<>> /\ ValueEnd(s, 1) = Len(s)

\* s[1..] has been rejected: no continuation of s is a well-formed document.
Rejected(s) == GrammarRun(s, 1, <<"V">>).modes = <<"X">>

IsValueStart(token) == token.kind = ScalarToken \/ IsSequenceStart(token)

\* Number of values (scalars and sequences) among s[p..q].
ValueCount(s, p, q) == Cardinality({i \in p..q : IsValueStart(s[i])})

\* Nesting depth in front of token i, counted from token a + 1 on.
DepthBefore(a, i) ==
    Cardinality({j \in (a + 1)..(i - 1) : IsSequenceStart(tokens[j])})
    - Cardinality({j \in (a + 1)..(i - 1) : IsSequenceEnd(tokens[j])})

\* The first tokens of the elements of the sequence whose tokens are
\* tokens[a+1..e], in source order.
ElementStarts(a, e) ==
    {i \in (a + 2)..(e - 1) : IsValueStart(tokens[i]) /\ DepthBefore(a, i) = 1}

RECURSIVE Sorted(_)
Sorted(S) ==
    IF S = {} THEN <<>>
    ELSE LET m == CHOOSE x \in S : \A y \in S : x <= y
         IN  <<m>> \o Sorted(S \ {m})

Pointers(entries) == [j \in 1..Len(entries) |-> entries[j][1]]

Segments(pointer) == Cardinality({i \in 1..Len(pointer) : pointer[i] = "/"})

\* The pointer without its last segment.
Parent(pointer) ==
    LET last == CHOOSE i \in 1..Len(pointer) :
                    /\ pointer[i] = "/"
                    /\ \A j \in (i + 1)..Len(pointer) : pointer[j] # "/"
    IN  SubSeq(pointer, 1, last - 1)

RECURSIVE OneSegment(_)
OneSegment(ps) ==
    IF ps = <<>> THEN <<>>
    ELSE (IF Segments(ps[1]) = 1 THEN <<ps[1]>> ELSE <<>>) \o OneSegment(Tail(ps))

Unique(ps) == \A i, j \in 1..Len(ps) : ps[i] = ps[j] => i = j

Returned == {log[n] : n \in 1..Len(log)}

SequencesReturned == {l \in Returned : l.fn = "sequence"}

\* The calls that returned from cursor position a.
ReturnedAt(a) == {l \in Returned : l.at = a}

\* The token a call made at cursor position a met; None past the end.
TokenAt(a) == IF a < Len(tokens) THEN tokens[a + 1] ELSE None

\* The cursor of a call made at position a has been looked at.
Seen(a) == a < Len(tokens) \/ exhausted

-----------------------------------------------------------------------------
\* C1: a sequence whose closing token does not match the form of its
\* opening token (flow start closed by a block end, block start closed by a
\* flow end) is never accepted: no sequence() call returns a source map for it.
Matches(open, close) ==
    \/ open.kind = FlowSequenceStartToken /\ close.kind = FlowSequenceEndToken
    \/ open.kind = BlockSequenceStartToken /\ close.kind = BlockEndToken

C1_MismatchedCloseRejected ==
    \A l \in SequencesReturned : Matches(tokens[l.at + 1], tokens[l.end])

-----------------------------------------------------------------------------
\* The root sequence is open: no token scanned so far closes it.
RootUnclosed ==
    /\ tokens # <<>>
    /\ IsSequenceStart(tokens[1])
    /\ \A i \in 2..(Len(tokens) + 1) : DepthBefore(0, i) >= 1

\* The stream ended, or gave a token that is no value start, separator or
\* end token, while the root sequence was open.
Unterminated ==
    /\ tokens # <<>>
    /\ \/ exhausted
       \/ tokens[Len(tokens)].kind = OtherToken
    /\ RootUnclosed

\* C2: a stream that opens a sequence and is exhausted, or gives a token
\* that is neither a value start, a separator nor an end token, before the
\* sequence is closed never yields entries, and the walk ends with the error.
C2_UnterminatedSequenceRaises ==
    Unterminated =>
        /\ result.status # "ok"
        /\ result.entries = <<>>
        /\ pc # "done"
        /\ pc = "error" => result.status = "error" /\ result.error.raised

C2_Witness ==
    /\ Unterminated
    /\ pc = "error"
    /\ Len(tokens) >= 3
    /\ \E n \in 1..Len(log) : log[n].entries # <<>>

-----------------------------------------------------------------------------
\* C3: value() on the token stream of a well-formed document with N values
\* returns N entries with pairwise different pointers; it raises only when
\* the tokens read are not (the beginning of) a well-formed document, and it
\* never returns before the document is complete.
C3_Completeness ==
    entry = "value" =>
        /\ pc = "done" =>
            /\ WellFormed(tokens) \/ Rejected(tokens)
            /\ WellFormed(tokens) =>
                /\ Len(result.entries) = ValueCount(tokens, 1, Len(tokens))
                /\ Unique(Pointers(result.entries))
        /\ err.raised =>
            IF err.token = None THEN ~WellFormed(tokens) ELSE Rejected(tokens)

C3_Witness ==
    /\ entry = "value"
    /\ pc = "done"
    /\ WellFormed(tokens)
    /\ Len(result.entries) >= 3
    /\ \E j \in 1..Len(result.entries) : Segments(result.entries[j][1]) = 2

-----------------------------------------------------------------------------
\* The pointers a sequence must return for elements that returned the
\* pointer lists `subs`: "/i" in front of each pointer of element i.
RECURSIVE ExpectedChildren(_, _)
ExpectedChildren(subs, i) ==
    IF i > Len(subs) THEN <<>>
    ELSE [j \in 1..Len(subs[i]) |-> <<"/", DigitChar[i]>> \o subs[i][j]]
         \o ExpectedChildren(subs, i + 1)

\* The pointer lists the element calls of the returned sequence l returned.
ElementPointers(l) ==
    LET starts == Sorted(ElementStarts(l.at, l.end)) IN
    [i \in 1..Len(starts) |->
        Pointers((CHOOSE c \in ReturnedAt(starts[i] - 1) : TRUE).entries)]

\* C4: for a sequence of k elements that sequence() walked, the one-segment
\* pointers returned are "/0", ..., "/(k-1)" in this order, and the pointers
\* of element i's descendants are "/i" followed by the pointer the walk of
\* element i returned.
C4_PointerCorrectness ==
    \A l \in SequencesReturned :
        LET starts == Sorted(ElementStarts(l.at, l.end))
            ps == Pointers(l.entries)
        IN
        /\ \A i \in 1..Len(starts) : ReturnedAt(starts[i] - 1) # {}
        /\ OneSegment(ps) = [i \in 1..Len(starts) |-> <<"/", DigitChar[i]>>]
        /\ Tail(ps) = ExpectedChildren(ElementPointers(l), 1)

C4_Witness ==
    \E l \in SequencesReturned :
        /\ Cardinality(ElementStarts(l.at, l.end)) = 2
        /\ <<"/", "0", "/", "0">> \in {l.entries[j][1] : j \in 1..Len(l.entries)}
        /\ <<"/", "1">> \in {l.entries[j][1] : j \in 1..Len(l.entries)}

-----------------------------------------------------------------------------
\* The scanner's tokens have start <= end and never go back in the source.
TokensOrdered ==
    /\ \A i \in 1..Len(tokens) : tokens[i].start_mark.index <= tokens[i].end_mark.index
    /\ \A i \in 1..(Len(tokens) - 1) :
            tokens[i].end_mark.index <= tokens[i + 1].start_mark.index

\* C5: every entry returned has value_start <= value_end; a sequence's own
\* entry starts at the start of its opening token, ends at the end of its
\* closing token, and contains the span of every other entry it returns.
C5_SpanCorrectness ==
    /\ TokensOrdered
    /\ \A l \in Returned :
        /\ \A j \in 1..Len(l.entries) :
                l.entries[j][2].value_start.index <= l.entries[j][2].value_end.index
        /\ l.fn = "sequence" =>
            /\ l.entries[1][2].value_start = tokens[l.at + 1].start_mark
            /\ l.entries[1][2].value_end = tokens[l.end].end_mark
            /\ \A j \in 2..Len(l.entries) :
                /\ l.entries[1][2].value_start.index <= l.entries[j][2].value_start.index
                /\ l.entries[j][2].value_end.index <= l.entries[1][2].value_end.index

C5_Witness ==
    \E l \in SequencesReturned :
        /\ Len(l.entries) >= 3
        /\ \E j \in 2..Len(l.entries) :
            /\ l.entries[1][2].value_start.index < l.entries[j][2].value_start.index
            /\ l.entries[j][2].value_end.index < l.entries[1][2].value_end.index
        /\ \E j \in 2..Len(l.entries) : Segments(l.entries[j][1]) = 2

-----------------------------------------------------------------------------
\* C6: in every list a call returns, the first entry has pointer "" and no
\* other has, and the parent pointer of every other entry occurs earlier in
\* the list.
C6_ParentBeforeChildren ==
    \A l \in Returned :
        LET ps == Pointers(l.entries) IN
        /\ ps # <<>>
        /\ ps[1] = <<>>
        /\ \A j \in 2..Len(ps) :
            /\ ps[j] # <<>>
            /\ \E i \in 1..(j - 1) : ps[i] = Parent(ps[j])

C6_Witness ==
    \E l \in SequencesReturned :
        \E j \in 3..Len(l.entries) :
            /\ Segments(l.entries[j][1]) = 2
            /\ Parent(l.entries[j][1]) = l.entries[j - 1][1]

-----------------------------------------------------------------------------
\* C7: a value() call that returns, made where the tokens p..q are exactly
\* the tokens of one well-formed value, leaves the cursor right after token
\* q, having taken each of the tokens p..q once.
ValueCalls == {c \in calls : c.fn = "value"}

C7_ExactConsumption ==
    \A c \in ValueCalls : \A l \in ReturnedAt(c.at) :
        LET q == ValueEnd(tokens, c.at + 1) IN
        q # 0 =>
            /\ l.end = q
            /\ l.takes = q - c.at

C7_Witness ==
    \E c \in ValueCalls : \E l \in ReturnedAt(c.at) :
        /\ c.at >= 1
        /\ l.fn = "sequence"
        /\ ValueEnd(tokens, c.at + 1) = l.end
        /\ l.end >= c.at + 3
        /\ pc = "done"
        /\ Len(tokens) >= l.end + 2

-----------------------------------------------------------------------------
\* The value() call made at cursor a has delegated.
Delegated(a) == ~(pc = "value" /\ pos = a)

\* The primitive() call made at cursor a has run.
PrimitiveRan(a) == [fn |-> "primitive", at |-> a] \in calls /\ ~(pc = "primitive" /\ pos = a)

\* C8: value() peeks without consuming and delegates at the same cursor: to
\* sequence() when the next token is a flow or block sequence start, else to
\* primitive(); on a scalar that takes the one token and returns the one
\* entry ("", Entry(token start, token end)); on any other token, or an
\* exhausted stream, it raises.
C8_Dispatch ==
    \A c \in ValueCalls :
        Delegated(c.at) =>
            LET token == TokenAt(c.at) IN
            /\ Seen(c.at)
            /\ IsSequenceStart(token) =>
                /\ [fn |-> "sequence", at |-> c.at] \in calls
                /\ [fn |-> "primitive", at |-> c.at] \notin calls
                /\ \A l \in ReturnedAt(c.at) : l.fn = "sequence"
            /\ ~IsSequenceStart(token) =>
                /\ [fn |-> "primitive", at |-> c.at] \in calls
                /\ [fn |-> "sequence", at |-> c.at] \notin calls
            /\ token.kind = ScalarToken /\ PrimitiveRan(c.at) =>
                /\ ReturnedAt(c.at) # {}
                /\ \A l \in ReturnedAt(c.at) :
                    /\ l.fn = "primitive"
                    /\ l.end = c.at + 1
                    /\ l.takes = 1
                    /\ l.entries = << << <<>>, [value_start |-> token.start_mark,
                                               value_end |-> token.end_mark] >> >>
            /\ ~IsValueStart(token) /\ PrimitiveRan(c.at) =>
                /\ ReturnedAt(c.at) = {}
                /\ err.raised
                /\ err.token = token
                /\ pc \in {"raise", "error"}

C8_Witness ==
    /\ pc = "error"
    /\ \E c \in ValueCalls : c.at >= 3 /\ TokenAt(c.at).kind = FlowSequenceEndToken
                             /\ PrimitiveRan(c.at)
    /\ \E c \in ValueCalls : TokenAt(c.at).kind = ScalarToken /\ ReturnedAt(c.at) # {}
    /\ \E c \in ValueCalls : TokenAt(c.at).kind = BlockSequenceStartToken
                             /\ ReturnedAt(c.at) # {}

-----------------------------------------------------------------------------
\* C9: the error raised carries the offending token, which is the last token
\* got from the loader; from then on no loader call is made, nothing returns,
\* the error is unchanged while every enclosing sequence() is left, and the
\* caller receives that error and no entries.
C9_ImmediateFailure ==
    /\ [](err.raised =>
            /\ err.token = io.last
            /\ pc \in {"raise", "error"}
            /\ result.entries = <<>>
            /\ pc = "error" => /\ result.status = "error"
                               /\ result.error = err
                               /\ stack = <<>>)
    /\ [][err.raised =>
            /\ err' = err
            /\ io' = io
            /\ pos' = pos
            /\ tokens' = tokens
            /\ log' = log
            /\ Len(stack') < Len(stack) \/ pc' = "error"]_vars

C9_Witness ==
    /\ pc = "error"
    /\ err.token.kind = BlockEntryToken
    /\ Len(log) >= 2
    /\ io.takes >= 5

-----------------------------------------------------------------------------
\* C10: the cursor never moves back and never passes the tokens scanned,
\* every iteration of the element loop of sequence() that comes back to the
\* loop condition has taken at least one token, and every walk terminates,
\* by returning or by raising.
C10_Progress ==
    /\ [][/\ pos' >= pos
          /\ pos' <= Len(tokens')
          /\ pc = "flow_entry" => pos' > stack[Len(stack)].iter_pos]_vars
    /\ <>Terminated

C10_Witness ==
    /\ pc = "error"
    /\ exhausted
    /\ Len(stack) = 0
    /\ Len(tokens) >= 4
    /\ \A i \in 1..Len(tokens) : IsSequenceStart(tokens[i])
====
